---------------------------- MODULE Spec2Model ----------------------------
(***************************************************************************)
(* Model of scripts/pdf_reader_pipeline.py: the --pages expression parser  *)
(* (parse_pages_arg and its helpers), the page selection of main(), and    *)
(* the per-page text loop of PDFInspector.extract_full_text.               *)
(*                                                                         *)
(* A Python str is a sequence of one-character strings.  Characters that   *)
(* are not ASCII are written by their code point: "U+2013" is the en dash, *)
(* "U+C804" "U+CCB4" are the two syllables of the Korean word for "all".   *)
(***************************************************************************)
EXTENDS Integers, Sequences, FiniteSets, TLC

VARIABLES
    pc,             \* position of the modelled call
    pages_given,    \* main: whether --pages was given (args.pages is not None)
    pages_arg,      \* the page expression
    total_pages,    \* doc.page_count
    result,         \* outcome of parse_pages_arg / the selected_pages of main
    ocr_if_scanned, \* PDFInspector.ocr_if_scanned
    TESS_AVAILABLE, \* module flag set by the pytesseract import
    indices,        \* extract_full_text: the pages to visit
    pos,            \* extract_full_text: position of the loop in indices
    txt,            \* extract_full_text: txt of the current page
    direct_txt,     \* what _extract_text_basic returned for the current page
    ocr_txt,        \* extract_full_text: ocr_txt of the current page
    ocr_calls,      \* calls of pytesseract.image_to_string for the current page
    text_per_page   \* PDFInspector.text_per_page

vars == << pc, pages_given, pages_arg, total_pages, result, ocr_if_scanned,
           TESS_AVAILABLE, indices, pos, txt, direct_txt, ocr_txt, ocr_calls,
           text_per_page >>

(***************************************************************************)
(* Bounds of the model.                                                    *)
(***************************************************************************)
MaxPages == 5       \* total_pages ranges over 1..MaxPages
MaxNum == 6         \* digit tokens 0..MaxNum
MaxOff == 5         \* last-K tokens with K in 0..MaxOff
MaxSegs == 3        \* comma-separated segments of a mixed expression
MaxPad == 1         \* whitespace characters on one side of a page text
MaxDocPages == 2    \* pages of the document read by extract_full_text

(***************************************************************************)
(* Python str helpers, as the code uses them.                              *)
(***************************************************************************)
DigitChars == << "0", "1", "2", "3", "4", "5", "6", "7", "8", "9" >>

IsSpaceChar(c) == c \in {" ", "\t", "\n"}

IsDigitChar(c) == \E d \in 1..10 : DigitChars[d] = c

SetMin(S) == CHOOSE x \in S : \A y \in S : x <= y

SetMax(S) == CHOOSE x \in S : \A y \in S : y <= x

\* str.strip()
Strip(s) ==
    LET keep == { k \in 1..Len(s) : ~IsSpaceChar(s[k]) }
    IN  IF keep = {} THEN << >> ELSE SubSeq(s, SetMin(keep), SetMax(keep))

LowerChar(c) ==
    CASE c = "L" -> "l"
      [] c = "A" -> "a"
      [] c = "S" -> "s"
      [] c = "T" -> "t"
      [] c = "X" -> "x"
      [] OTHER -> c

\* str.lower()
Lower(s) == IF s = << >> THEN << >> ELSE [ k \in 1..Len(s) |-> LowerChar(s[k]) ]

\* str.isdigit()
IsDigitStr(s) == Len(s) > 0 /\ \A k \in 1..Len(s) : IsDigitChar(s[k])

DigitVal(c) == (CHOOSE d \in 1..10 : DigitChars[d] = c) - 1

RECURSIVE ToInt(_)
\* int(s) of a string of digits
ToInt(s) ==
    IF s = << >> THEN 0
    ELSE 10 * ToInt(SubSeq(s, 1, Len(s) - 1)) + DigitVal(s[Len(s)])

\* str.startswith(p)
StartsWith(s, p) == Len(s) >= Len(p) /\ SubSeq(s, 1, Len(p)) = p

RECURSIVE Split(_, _)
\* str.split(sep) for a one-character separator
Split(s, sep) ==
    LET hits == { k \in 1..Len(s) : s[k] = sep }
    IN  IF hits = {} THEN << s >>
        ELSE << SubSeq(s, 1, SetMin(hits) - 1) >>
             \o Split(SubSeq(s, SetMin(hits) + 1, Len(s)), sep)

\* t.split("-", 1)[1]: what follows the first hyphen of t
AfterFirstHyphen(t) ==
    LET hits == { k \in 1..Len(t) : t[k] = "-" }
    IN  SubSeq(t, SetMin(hits) + 1, Len(t))

\* list(range(a, b))
RangeList(a, b) == IF b <= a THEN << >> ELSE [ k \in 1..(b - a) |-> a + k - 1 ]

RECURSIVE SortedList(_)
\* sorted(S) of a finite set of integers
SortedList(S) ==
    IF S = {} THEN << >> ELSE << SetMin(S) >> \o SortedList(S \ {SetMin(S)})

SeqSet(s) == { s[k] : k \in 1..Len(s) }

(***************************************************************************)
(* The module constants of the parser.                                     *)
(***************************************************************************)
LAST == << "l", "a", "s", "t" >>
LAST_HYPHEN == << "l", "a", "s", "t", "-" >>
ALL == << "a", "l", "l" >>

\* _DASHES: the Unicode dashes that translate to ASCII '-'
DashChars == { "U+2010", "U+2011", "U+2012", "U+2013", "U+2014", "U+2015", "U+2212" }

\* pages_arg.translate(_DASHES)
TranslateDashes(s) ==
    IF s = << >> THEN << >>
    ELSE [ k \in 1..Len(s) |-> IF s[k] \in DashChars THEN "-" ELSE s[k] ]

\* the alternative  last(?:-\d+)?|\d+  of both regular expressions
IsEndpointText(s) ==
    \/ s = LAST
    \/ StartsWith(s, LAST_HYPHEN) /\ IsDigitStr(SubSeq(s, 6, Len(s)))
    \/ IsDigitStr(s)

\* _SINGLE_RE.fullmatch(s)
SingleMatch(s) == LET core == Strip(s) IN IsEndpointText(core) \/ core = ALL

\* the hyphens of s at which _RANGE_RE can split s into its two groups
RangeSplits(s) ==
    { k \in 1..Len(s) :
        /\ s[k] = "-"
        /\ IsEndpointText(Strip(SubSeq(s, 1, k - 1)))
        /\ IsEndpointText(Strip(SubSeq(s, k + 1, Len(s)))) }

\* _RANGE_RE.fullmatch(s) is not None
RangeMatch(s) == RangeSplits(s) # {}

\* m.group(1), m.group(2): the first group is greedy
RangeGroups(s) ==
    LET k == SetMax(RangeSplits(s))
    IN  << Strip(SubSeq(s, 1, k - 1)), Strip(SubSeq(s, k + 1, Len(s))) >>

Ok(v) == [ ok |-> TRUE, val |-> v, msg |-> "" ]

Raise(m) == [ ok |-> FALSE, val |-> 0, msg |-> m ]

\* _parse_one_token with the upper bound of a digit token left unchecked
ParseOneTokenNoUpperBound(tok, P) ==
    LET t == Lower(Strip(tok))
    IN  IF t = ALL THEN Ok(-2)
        ELSE IF t = LAST THEN Ok(P - 1)
        ELSE IF StartsWith(t, LAST_HYPHEN) THEN
            LET off_str == AfterFirstHyphen(t)
            IN  IF ~IsDigitStr(off_str) THEN Raise("Invalid last-offset")
                ELSE LET idx == P - 1 - ToInt(off_str)
                     IN  IF ~(0 <= idx /\ idx < P) THEN Raise("Page out of range")
                         ELSE Ok(idx)
        ELSE IF IsDigitStr(t) THEN
            LET p == ToInt(t)
            IN  IF ~(1 <= p) THEN Raise("Page out of range")
                ELSE Ok(p - 1)
        ELSE Raise("Invalid token")

\* _parse_one_token(tok, total_pages): a zero-based index, -2 for all
ParseOneToken(tok, P) ==
    LET t == Lower(Strip(tok))
    IN  IF t = ALL THEN Ok(-2)
        ELSE IF t = LAST THEN Ok(P - 1)
        ELSE IF StartsWith(t, LAST_HYPHEN) THEN
            LET off_str == AfterFirstHyphen(t)
            IN  IF ~IsDigitStr(off_str) THEN Raise("Invalid last-offset")
                ELSE LET idx == P - 1 - ToInt(off_str)
                     IN  IF ~(0 <= idx /\ idx < P) THEN Raise("Page out of range")
                         ELSE Ok(idx)
        ELSE IF IsDigitStr(t) THEN
            LET p == ToInt(t)
            IN  IF ~(1 <= p /\ p <= P) THEN Raise("Page out of range")
                ELSE Ok(p - 1)
        ELSE Raise("Invalid token")

\* _parse_endpoint with the bounds of a last-K endpoint taken zero-based
ParseEndpointZeroBased(val, P) ==
    LET t == Lower(Strip(val))
    IN  IF t \in {ALL, LAST} THEN Ok(P)
        ELSE IF StartsWith(t, LAST_HYPHEN) THEN
            LET off_str == AfterFirstHyphen(t)
            IN  IF ~IsDigitStr(off_str) THEN Raise("Invalid last-offset")
                ELSE LET res == P - ToInt(off_str)
                     IN  IF ~(0 <= res /\ res <= P) THEN Raise("Endpoint out of range")
                         ELSE Ok(res)
        ELSE IF IsDigitStr(t) THEN
            LET res == ToInt(t)
            IN  IF ~(1 <= res /\ res <= P) THEN Raise("Endpoint out of range")
                ELSE Ok(res)
        ELSE Raise("Invalid endpoint")

\* _parse_endpoint(val, total_pages): a one-based page number
ParseEndpoint(val, P) ==
    LET t == Lower(Strip(val))
    IN  IF t \in {ALL, LAST} THEN Ok(P)
        ELSE IF StartsWith(t, LAST_HYPHEN) THEN
            LET off_str == AfterFirstHyphen(t)
            IN  IF ~IsDigitStr(off_str) THEN Raise("Invalid last-offset")
                ELSE LET res == P - ToInt(off_str)
                     IN  IF ~(1 <= res /\ res <= P) THEN Raise("Endpoint out of range")
                         ELSE Ok(res)
        ELSE IF IsDigitStr(t) THEN
            LET res == ToInt(t)
            IN  IF ~(1 <= res /\ res <= P) THEN Raise("Endpoint out of range")
                ELSE Ok(res)
        ELSE Raise("Invalid endpoint")

\* the three outcomes of parse_pages_arg
Returned(pages) == [ kind |-> "list", pages |-> pages, msg |-> "" ]

ReturnedNone == [ kind |-> "none", pages |-> << >>, msg |-> "" ]

ValueError(m) == [ kind |-> "error", pages |-> << >>, msg |-> m ]

\* the loop body of a lenient parser: a segment that does not parse is skipped
SegmentPagesSkipInvalid(raw, P) ==
    LET tok == Strip(raw)
        tok_l == Lower(tok)
    IN  IF SingleMatch(tok_l) THEN
            LET idx == ParseOneToken(tok, P)
            IN  IF ~idx.ok THEN Returned(<< >>)
                ELSE IF idx.val = -2 THEN Returned(RangeList(0, P))
                ELSE Returned(<< idx.val >>)
        ELSE IF RangeMatch(tok_l) THEN
            LET a == ParseEndpoint(RangeGroups(tok_l)[1], P)
                b == ParseEndpoint(RangeGroups(tok_l)[2], P)
            IN  IF ~a.ok \/ ~b.ok THEN Returned(<< >>)
                ELSE IF a.val > b.val THEN Returned(RangeList(b.val - 1, a.val))
                ELSE Returned(RangeList(a.val - 1, b.val))
        ELSE Returned(<< >>)

\* the loop body without the swap of a descending range
SegmentPagesNoSwap(raw, P) ==
    LET tok == Strip(raw)
        tok_l == Lower(tok)
    IN  IF SingleMatch(tok_l) THEN
            LET idx == ParseOneToken(tok, P)
            IN  IF ~idx.ok THEN ValueError(idx.msg)
                ELSE IF idx.val = -2 THEN Returned(RangeList(0, P))
                ELSE Returned(<< idx.val >>)
        ELSE IF RangeMatch(tok_l) THEN
            LET a == ParseEndpoint(RangeGroups(tok_l)[1], P)
                b == ParseEndpoint(RangeGroups(tok_l)[2], P)
            IN  IF ~a.ok THEN ValueError(a.msg)
                ELSE IF ~b.ok THEN ValueError(b.msg)
                ELSE Returned(RangeList(a.val - 1, b.val))
        ELSE ValueError("Invalid token")

\* one pass of the body of the for loop: what the segment raw adds to wanted
SegmentPages(raw, P) ==
    LET tok == Strip(raw)
        tok_l == Lower(tok)
    IN  IF SingleMatch(tok_l) THEN
            LET idx == ParseOneToken(tok, P)
            IN  IF ~idx.ok THEN ValueError(idx.msg)
                ELSE IF idx.val = -2 THEN Returned(RangeList(0, P))
                ELSE Returned(<< idx.val >>)
        ELSE IF RangeMatch(tok_l) THEN
            LET a == ParseEndpoint(RangeGroups(tok_l)[1], P)
                b == ParseEndpoint(RangeGroups(tok_l)[2], P)
            IN  IF ~a.ok THEN ValueError(a.msg)
                ELSE IF ~b.ok THEN ValueError(b.msg)
                ELSE IF a.val > b.val THEN Returned(RangeList(b.val - 1, a.val))
                ELSE Returned(RangeList(a.val - 1, b.val))
        ELSE ValueError("Invalid token")

RECURSIVE ParseLoop(_, _, _, _)
\* the for loop over raw_arg.split(","): the final wanted and any_tok, or the error
ParseLoop(segs, P, wanted, any_tok) ==
    IF segs = << >>
    THEN [ kind |-> "end", wanted |-> wanted, any_tok |-> any_tok, msg |-> "" ]
    ELSE IF Strip(Head(segs)) = << >> THEN ParseLoop(Tail(segs), P, wanted, any_tok)
    ELSE LET r == SegmentPages(Head(segs), P)
         IN  IF r.kind = "error"
             THEN [ kind |-> "error", wanted |-> wanted, any_tok |-> TRUE, msg |-> r.msg ]
             ELSE ParseLoop(Tail(segs), P, wanted \o r.pages, TRUE)

\* parse_pages_arg returning wanted as collected, without sorted(set(...))
parse_pages_arg_unsorted(arg, P) ==
    IF arg = << >> THEN ReturnedNone
    ELSE LET raw_arg == TranslateDashes(arg)
             loop == ParseLoop(Split(raw_arg, ","), P, << >>, FALSE)
         IN  IF loop.kind = "error" THEN ValueError(loop.msg)
             ELSE IF ~loop.any_tok THEN ValueError("Invalid --pages spec (empty after parsing)")
             ELSE LET res == loop.wanted
                  IN  IF res = << >> THEN ValueError("Invalid --pages spec (no valid pages)")
                      ELSE Returned(res)

\* parse_pages_arg(pages_arg, total_pages)
parse_pages_arg(arg, P) ==
    IF arg = << >> THEN ReturnedNone
    ELSE LET raw_arg == TranslateDashes(arg)
             loop == ParseLoop(Split(raw_arg, ","), P, << >>, FALSE)
         IN  IF loop.kind = "error" THEN ValueError(loop.msg)
             ELSE IF ~loop.any_tok THEN ValueError("Invalid --pages spec (empty after parsing)")
             ELSE LET res == SortedList(SeqSet(loop.wanted))
                  IN  IF res = << >> THEN ValueError("Invalid --pages spec (no valid pages)")
                      ELSE Returned(res)

(***************************************************************************)
(* The page expressions the calls are made with.                           *)
(***************************************************************************)
\* the decimal text of n
NumStr(n) ==
    IF n < 10 THEN << DigitChars[n + 1] >>
    ELSE << DigitChars[(n \div 10) + 1], DigitChars[(n % 10) + 1] >>

LastMinus(k) == LAST_HYPHEN \o NumStr(k)

DigitTexts == { NumStr(n) : n \in 0..MaxNum }

LastMinusTexts == { LastMinus(k) : k \in 0..MaxOff }

EndpointTexts == DigitTexts \cup {LAST} \cup LastMinusTexts

Hyphen == << "-" >>

SpacedHyphens == { << " ", "-" >>, << "-", " " >>, << " ", "-", " " >> }

HyphenTexts == {Hyphen, << "U+2013" >>} \cup SpacedHyphens

RangeTexts == { a \o h \o b : a \in EndpointTexts, b \in EndpointTexts, h \in HyphenTexts }

JEONCHE == << "U+C804", "U+CCB4" >>

OtherTexts ==
    { ALL, << "L", "A", "S", "T" >>, << "A", "l", "l" >>, << "L", "a", "s", "t", "-", "1" >>,
      JEONCHE, << "a", "b", "c" >>, << "1", "-" >>, << "-", "1" >>, << "1", ".", "5" >>,
      << "l", "a", "s", "t", "-", "x" >>, << "l", "a", "s", "t", "-" >>,
      << "1", "-", "a", "l", "l" >>, << "1", " ", "2" >>, << "1", "-", "2", "-", "3" >> }

PadTexts == { << >>, << " " >> }

OneSegmentExprs ==
    { l \o s \o r : s \in EndpointTexts \cup RangeTexts \cup OtherTexts,
                    l \in PadTexts, r \in PadTexts }

\* the segments that mixed expressions are made of
MixSegments ==
    { << "2" >>, LAST, LastMinus(1), ALL, << "1", "-", "2" >>, << "5", "-", "2" >>,
      << " ", "3" >>, << "0" >>, << "x" >>, << >> }

RECURSIVE Join(_)
\* ",".join(segs)
Join(segs) ==
    IF Len(segs) = 1 THEN segs[1]
    ELSE segs[1] \o << "," >> \o Join(Tail(segs))

MixedExprs == UNION { { Join(f) : f \in [ 1..n -> MixSegments ] } : n \in 2..MaxSegs }

Exprs == OneSegmentExprs \cup MixedExprs \cup { << >>, << " " >> }

NotCalled == [ kind |-> "pending", pages |-> << >>, msg |-> "" ]

(***************************************************************************)
(* Specification SpecPages: one call of parse_pages_arg, directly or from  *)
(* main().                                                                 *)
(***************************************************************************)
TextIdle ==
    /\ ocr_if_scanned = TRUE
    /\ TESS_AVAILABLE = TRUE
    /\ indices = << >>
    /\ pos = 0
    /\ txt = << >>
    /\ direct_txt = << >>
    /\ ocr_txt = << >>
    /\ ocr_calls = 0
    /\ text_per_page = << >>

InitPages ==
    /\ pc = "start"
    /\ pages_given \in BOOLEAN
    /\ pages_arg \in (IF pages_given THEN Exprs ELSE { << >> })
    /\ total_pages \in 1..MaxPages
    /\ result = NotCalled
    /\ TextIdle

\* a direct call parse_pages_arg(pages_arg, total_pages) with a str
CallParsePagesArg ==
    /\ pc = "start"
    /\ pages_given
    /\ result' = parse_pages_arg(pages_arg, total_pages)
    /\ pc' = "called"
    /\ UNCHANGED << pages_given, pages_arg, total_pages, ocr_if_scanned, TESS_AVAILABLE,
                    indices, pos, txt, direct_txt, ocr_txt, ocr_calls, text_per_page >>

\* main(): if args.pages: selected_pages = parse_pages_arg(...) else: None
MainSelectPages ==
    /\ pc = "start"
    /\ result' = IF pages_given /\ pages_arg # << >>
                 THEN parse_pages_arg(pages_arg, total_pages)
                 ELSE ReturnedNone
    /\ pc' = IF result'.kind = "error" THEN "main_raised" ELSE "main_selected"
    /\ UNCHANGED << pages_given, pages_arg, total_pages, ocr_if_scanned, TESS_AVAILABLE,
                    indices, pos, txt, direct_txt, ocr_txt, ocr_calls, text_per_page >>

NextPages == CallParsePagesArg \/ MainSelectPages

SpecPages == InitPages /\ [][NextPages]_vars

(***************************************************************************)
(* Endpoints as the page expression grammar describes them, for stating    *)
(* the properties: a digit token N, last, or last-K.                       *)
(***************************************************************************)
Endpoints ==
    [ k : {"num"}, n : 0..MaxNum ] \cup [ k : {"last"}, n : {0} ]
        \cup [ k : {"lastk"}, n : 0..MaxOff ]

EndpointText(e) ==
    CASE e.k = "num" -> NumStr(e.n)
      [] e.k = "last" -> LAST
      [] e.k = "lastk" -> LastMinus(e.n)

\* the bounds of a token: 1 <= N <= P for a digit token, 0 <= K <= P-1 for last-K
WithinBounds(e, P) ==
    CASE e.k = "num" -> 1 <= e.n /\ e.n <= P
      [] e.k = "last" -> TRUE
      [] e.k = "lastk" -> 0 <= e.n /\ e.n <= P - 1

\* the one-based page an endpoint within bounds stands for
OneBased(e, P) ==
    CASE e.k = "num" -> e.n
      [] e.k = "last" -> P
      [] e.k = "lastk" -> P - e.n

\* the text A-B is the single token last-N when A is a bare last and B a digit token
ReadsAsLastMinus(a, b) == a.k = "last" /\ b.k = "num"

IsStrictlyAscending(q) == \A k \in 1..(Len(q) - 1) : q[k] < q[k + 1]

AllPages(P) == Returned(RangeList(0, P))

Unspaced(s) == SelectSeq(s, LAMBDA c : c # " ")

NonBlank(segs) == { k \in 1..Len(segs) : Strip(segs[k]) # << >> }

(***************************************************************************)
(* C1: for a non-empty expression, whenever parse_pages_arg returns        *)
(* instead of raising, the result is a non-empty, strictly ascending list  *)
(* of indices, each in [0, total_pages-1].                                 *)
(***************************************************************************)
C1_ResultAscendingInRange ==
    (pc \in {"called", "main_selected"} /\ pages_given /\ pages_arg # << >>
        /\ result.kind # "error")
    => /\ result.kind = "list"
       /\ Len(result.pages) >= 1
       /\ IsStrictlyAscending(result.pages)
       /\ \A k \in 1..Len(result.pages) :
            0 <= result.pages[k] /\ result.pages[k] <= total_pages - 1

C1_Witness ==
    /\ pc = "called"
    /\ \E k \in 1..Len(pages_arg) : pages_arg[k] = ","
    /\ result.kind = "list"
    /\ Len(result.pages) >= 4
    /\ Len(Split(pages_arg, ",")) = 3

(***************************************************************************)
(* C2: if one comma-separated segment is malformed or out of range (it     *)
(* fails when resolved alone), the whole call fails, wherever the segment  *)
(* stands; main() then raises and selects nothing.                         *)
(***************************************************************************)
HasBadSegment ==
    LET segs == Split(pages_arg, ",")
    IN  \E k \in NonBlank(segs) : parse_pages_arg(segs[k], total_pages).kind = "error"

C2_BadSegmentFailsCall ==
    /\ (pc = "called" /\ HasBadSegment) => result.kind = "error"
    /\ (pc \in {"main_selected", "main_raised"} /\ pages_given /\ HasBadSegment)
        => (pc = "main_raised" /\ result.kind = "error")

C2_Witness ==
    LET segs == Split(pages_arg, ",")
    IN  /\ pc = "main_raised"
        /\ Len(segs) = 3
        /\ parse_pages_arg(segs[1], total_pages).kind = "list"
        /\ parse_pages_arg(segs[2], total_pages).kind = "error"
        /\ parse_pages_arg(segs[3], total_pages).kind = "list"
        /\ result.kind = "error"

(***************************************************************************)
(* C3: an empty page expression is a failure: parse_pages_arg("") raises,  *)
(* and main() with an empty --pages value raises instead of selecting all  *)
(* pages.                                                                  *)
(***************************************************************************)
C3_EmptyExpressionFails ==
    /\ (pc = "called" /\ pages_arg = << >>) => result.kind = "error"
    /\ (pc \in {"main_selected", "main_raised"} /\ pages_given /\ pages_arg = << >>)
        => pc = "main_raised"

(***************************************************************************)
(* C4: a digit token N is accepted iff 1 <= N <= P and a last-K token iff  *)
(* 0 <= K <= P-1, as a single token and as a range endpoint; every other   *)
(* N or K fails with a range error, and no index outside [0, P-1] is       *)
(* produced.                                                               *)
(***************************************************************************)
C4_BoundsCaught ==
    pc = "called" =>
    /\ \A e \in Endpoints :
         pages_arg = EndpointText(e) =>
            IF WithinBounds(e, total_pages)
            THEN result.kind = "list"
            ELSE result = ValueError("Page out of range")
    /\ \A a \in Endpoints, b \in Endpoints, h \in HyphenTexts :
         (/\ Len(pages_arg) = Len(EndpointText(a)) + Len(h) + Len(EndpointText(b))
          /\ pages_arg = EndpointText(a) \o h \o EndpointText(b)
          /\ ~(ReadsAsLastMinus(a, b) /\ h \notin SpacedHyphens))
         => IF WithinBounds(a, total_pages) /\ WithinBounds(b, total_pages)
            THEN result.kind = "list"
            ELSE result = ValueError("Endpoint out of range")
    /\ result.kind = "list" =>
         \A k \in 1..Len(result.pages) :
            0 <= result.pages[k] /\ result.pages[k] < total_pages

C4_Witness ==
    /\ pc = "called"
    /\ pages_arg = NumStr(1) \o Hyphen \o LastMinus(total_pages)
    /\ result = ValueError("Endpoint out of range")

(***************************************************************************)
(* C5 as stated: for any two valid endpoints A and B, "A-B" and "B-A"      *)
(* resolve to the same list, the indices min(a,b)-1 .. max(a,b)-1.         *)
(***************************************************************************)
RangeOf(a, b, P) ==
    LET x == OneBased(a, P)
        y == OneBased(b, P)
    IN  Returned(RangeList((IF x < y THEN x ELSE y) - 1, IF x < y THEN y ELSE x))

C5_AnyEndpointsOrderIndependent ==
    pc = "called" =>
    \A a \in Endpoints, b \in Endpoints :
        (/\ WithinBounds(a, total_pages)
         /\ WithinBounds(b, total_pages)
         /\ pages_arg = EndpointText(a) \o Hyphen \o EndpointText(b))
        => /\ result = parse_pages_arg(EndpointText(b) \o Hyphen \o EndpointText(a),
                                       total_pages)
           /\ result = RangeOf(a, b, total_pages)

(***************************************************************************)
(* C5 amended: the same for any two valid endpoints except the pairing of  *)
(* a bare last with a digit token N; there "N-last" is still the range     *)
(* N-1 .. P-1, but "last-N" is the single token last-N.                    *)
(***************************************************************************)
C5_RangeOrderIndependent ==
    pc = "called" =>
    \A a \in Endpoints, b \in Endpoints :
        (/\ WithinBounds(a, total_pages)
         /\ WithinBounds(b, total_pages)
         /\ pages_arg = EndpointText(a) \o Hyphen \o EndpointText(b))
        => IF ReadsAsLastMinus(a, b)
           THEN result = parse_pages_arg(LastMinus(b.n), total_pages)
           ELSE /\ result = RangeOf(a, b, total_pages)
                /\ ~ReadsAsLastMinus(b, a) =>
                     result = parse_pages_arg(
                                EndpointText(b) \o Hyphen \o EndpointText(a), total_pages)

C5_Witness ==
    /\ pc = "called"
    /\ pages_arg = << "5", "-", "2" >>
    /\ result = Returned(<< 1, 2, 3, 4 >>)
    /\ result = parse_pages_arg(<< "2", "-", "5" >>, total_pages)

(***************************************************************************)
(* C6: for several valid segments the result is the ascending union of     *)
(* what each segment yields alone; "all" and "1-last" give 0..P-1, and     *)
(* "1-2,last-1,last" with 10 pages gives [0,1,8,9].                        *)
(***************************************************************************)
C6_UnionOfSegments ==
    pc = "called" =>
    LET segs == Split(pages_arg, ",")
        alone(k) == parse_pages_arg(segs[k], total_pages)
    IN  /\ (NonBlank(segs) # {} /\ \A k \in NonBlank(segs) : alone(k).kind = "list")
            => result = Returned(SortedList(
                            UNION { SeqSet(alone(k).pages) : k \in NonBlank(segs) }))
        /\ pages_arg = ALL => result = AllPages(total_pages)
        /\ pages_arg = << "1", "-", "l", "a", "s", "t" >> => result = AllPages(total_pages)
        /\ pages_arg = Join(<< << "1", "-", "2" >>, LastMinus(1), LAST >>)
            => /\ total_pages >= 2 =>
                    result = Returned(SortedList({0, 1, total_pages - 2, total_pages - 1}))
               /\ parse_pages_arg(pages_arg, 10) = Returned(<< 0, 1, 8, 9 >>)

C6_Witness ==
    /\ pc = "called"
    /\ pages_arg = Join(<< << "5", "-", "2" >>, ALL, << "2" >> >>)
    /\ result = Returned(<< 0, 1, 2, 3, 4 >>)

(***************************************************************************)
(* C9: the token "전체" (U+C804 U+CCB4) is accepted and resolves to every  *)
(* index 0..total_pages-1, as "all" does.                                  *)
(***************************************************************************)
C9_LocalizedAllAccepted ==
    (pc = "called" /\ pages_arg = JEONCHE)
    => (result = AllPages(total_pages) /\ result = parse_pages_arg(ALL, total_pages))

(***************************************************************************)
(* C10: whitespace around a segment and on either side of the hyphen       *)
(* between its endpoints does not change the outcome of parse_pages_arg.   *)
(***************************************************************************)
WhitespaceVariants ==
    { l \o s \o r :
        s \in EndpointTexts \cup {ALL}
              \cup { a \o h \o b : a \in EndpointTexts, b \in EndpointTexts,
                                   h \in {Hyphen} \cup SpacedHyphens },
        l \in PadTexts, r \in PadTexts }

\* the same index list, or a failure of the same kind
SameOutcome(r, q) ==
    /\ r.kind = q.kind
    /\ r.pages = q.pages
    /\ (r.msg = q.msg \/ {r.msg, q.msg} = {"Page out of range", "Endpoint out of range"})

C10_WhitespaceInsignificant ==
    (pc = "called" /\ pages_arg \in WhitespaceVariants)
    => SameOutcome(result, parse_pages_arg(Unspaced(pages_arg), total_pages))

(***************************************************************************)
(* PDFInspector.extract_full_text.  The document engine and the            *)
(* recognition engine are outside the program: a page's direct text and    *)
(* its recognized text are any of the texts below.  Direct text is made    *)
(* of "d", recognized text of "o".                                         *)
(***************************************************************************)
Threshold == 20

RECURSIVE Repeat(_, _)
Repeat(c, n) == IF n = 0 THEN << >> ELSE << c >> \o Repeat(c, n - 1)

TextLens == {0, 1, Threshold - 1, Threshold}

DirectTexts ==
    { Repeat(" ", l) \o Repeat("d", n) \o t :
        l \in 0..MaxPad, n \in TextLens, t \in { << >>, << "\n" >> } }
    \cup { << "d", " " >> \o Repeat("d", Threshold - 2),
           << "d", "\n" >> \o Repeat("d", Threshold - 1) }

OcrTexts ==
    { Repeat(" ", l) \o Repeat("o", n) \o t :
        l \in 0..MaxPad, n \in TextLens \cup {Threshold + 1}, t \in { << >>, << "\n" >> } }

\* _is_scanned(txt), with the variant that counts 20 characters as scanned
IsScannedAtThreshold(t) ==
    LET stripped == SelectSeq(t, LAMBDA ch : ~IsSpaceChar(ch))
    IN  Len(stripped) <= Threshold

\* PDFInspector._is_scanned(txt)
IsScanned(t) ==
    LET stripped == SelectSeq(t, LAMBDA ch : ~IsSpaceChar(ch))
    IN  Len(stripped) < Threshold

\* the choice of lines 185-186, with a tie going to the recognized text
ChooseTextOnTie(direct, ocr) ==
    IF Len(Strip(ocr)) >= Len(Strip(direct)) THEN ocr ELSE direct

\* if len(ocr_txt.strip()) > len(txt.strip()): txt = ocr_txt
ChooseText(direct, ocr) ==
    IF Len(Strip(ocr)) > Len(Strip(direct)) THEN ocr ELSE direct

PagesIdle ==
    /\ pages_given = FALSE
    /\ pages_arg = << >>

InitText ==
    /\ pc = "open"
    /\ PagesIdle
    /\ total_pages \in 1..MaxDocPages
    /\ result \in {ReturnedNone, Returned(<< total_pages - 1 >>)}
    /\ ocr_if_scanned \in BOOLEAN
    /\ TESS_AVAILABLE \in BOOLEAN
    /\ indices = << >>
    /\ pos = 0
    /\ txt = << >>
    /\ direct_txt = << >>
    /\ ocr_txt = << >>
    /\ ocr_calls = 0
    /\ text_per_page = << >>

\* text_per_page.clear(); indices = all pages when selected_pages is None
OpenDocument ==
    /\ pc = "open"
    /\ text_per_page' = << >>
    /\ indices' = IF result.kind = "none" THEN RangeList(0, total_pages) ELSE result.pages
    /\ pos' = 1
    /\ pc' = IF indices' = << >> THEN "join" ELSE "load"
    /\ UNCHANGED << pages_given, pages_arg, total_pages, result, ocr_if_scanned,
                    TESS_AVAILABLE, txt, direct_txt, ocr_txt, ocr_calls >>

\* p = doc.load_page(i); txt = self._extract_text_basic(p)
LoadPage ==
    /\ pc = "load"
    /\ \E t \in DirectTexts :
        /\ txt' = t
        /\ direct_txt' = t
    /\ ocr_txt' = << >>
    /\ ocr_calls' = 0
    /\ pc' = "gate"
    /\ UNCHANGED << pages_given, pages_arg, total_pages, result, ocr_if_scanned,
                    TESS_AVAILABLE, indices, pos, text_per_page >>

\* if self._is_scanned(txt) and self.ocr_if_scanned:
Gate ==
    /\ pc = "gate"
    /\ pc' = IF IsScanned(txt) /\ ocr_if_scanned THEN "ocr" ELSE "append"
    /\ UNCHANGED << pages_given, pages_arg, total_pages, result, ocr_if_scanned,
                    TESS_AVAILABLE, indices, pos, txt, direct_txt, ocr_txt, ocr_calls,
                    text_per_page >>

\* ocr_txt = self._ocr_page(p): "" without the engine, else what it recognizes
OcrPage ==
    /\ pc = "ocr"
    /\ \/ /\ ~TESS_AVAILABLE
          /\ ocr_txt' = << >>
          /\ ocr_calls' = ocr_calls
          /\ pc' = "choose"
       \/ /\ TESS_AVAILABLE
          /\ ocr_calls' = ocr_calls + 1
          /\ \E o \in OcrTexts : ocr_txt' = o
          /\ pc' = "choose"
       \/ /\ TESS_AVAILABLE
          /\ ocr_calls' = ocr_calls + 1
          /\ ocr_txt' = ocr_txt
          /\ pc' = "raised"
    /\ UNCHANGED << pages_given, pages_arg, total_pages, result, ocr_if_scanned,
                    TESS_AVAILABLE, indices, pos, txt, direct_txt, text_per_page >>

\* if len(ocr_txt.strip()) > len(txt.strip()): txt = ocr_txt
Choose ==
    /\ pc = "choose"
    /\ txt' = ChooseText(txt, ocr_txt)
    /\ pc' = "append"
    /\ UNCHANGED << pages_given, pages_arg, total_pages, result, ocr_if_scanned,
                    TESS_AVAILABLE, indices, pos, direct_txt, ocr_txt, ocr_calls,
                    text_per_page >>

\* self.text_per_page.append(txt), and on to the next index
AppendPage ==
    /\ pc = "append"
    /\ text_per_page' = Append(text_per_page, txt)
    /\ pos' = pos + 1
    /\ pc' = IF pos' > Len(indices) THEN "join" ELSE "load"
    /\ UNCHANGED << pages_given, pages_arg, total_pages, result, ocr_if_scanned,
                    TESS_AVAILABLE, indices, txt, direct_txt, ocr_txt, ocr_calls >>

\* return "\n\n".join(self.text_per_page)
ReturnText ==
    /\ pc = "join"
    /\ pc' = "returned"
    /\ UNCHANGED << pages_given, pages_arg, total_pages, result, ocr_if_scanned,
                    TESS_AVAILABLE, indices, pos, txt, direct_txt, ocr_txt, ocr_calls,
                    text_per_page >>

NextText == OpenDocument \/ LoadPage \/ Gate \/ OcrPage \/ Choose \/ AppendPage \/ ReturnText

SpecText == InitText /\ [][NextText]_vars

NonWhitespaceCount(t) == Cardinality({ k \in 1..Len(t) : ~IsSpaceChar(t[k]) })

StrippedLen(t) ==
    LET keep == { k \in 1..Len(t) : ~IsSpaceChar(t[k]) }
    IN  IF keep = {} THEN 0 ELSE SetMax(keep) - SetMin(keep) + 1

\* a recognized text is at hand: fallback is enabled and the engine answered
Recognized == ocr_calls = 1 /\ pc \in {"choose", "append"}

(***************************************************************************)
(* C7: the page's text is the recognized text only when its stripped       *)
(* length is strictly greater than the stripped length of the direct       *)
(* text; on a tie, on an empty recognized text and without a recognized    *)
(* text it is the direct text, unchanged.                                  *)
(***************************************************************************)
C7_StrictlyLongerRecognizedWins ==
    pc = "append" =>
        IF Recognized /\ StrippedLen(ocr_txt) > StrippedLen(direct_txt)
        THEN txt = ocr_txt
        ELSE txt = direct_txt

C7_Witness ==
    /\ pc = "append"
    /\ Recognized
    /\ StrippedLen(ocr_txt) = StrippedLen(direct_txt)
    /\ StrippedLen(direct_txt) > 0
    /\ ocr_txt # direct_txt
    /\ txt = direct_txt

(***************************************************************************)
(* C8: per page, recognition is attempted only when the direct text has    *)
(* fewer than 20 non-whitespace characters, fallback is enabled and the    *)
(* engine is available, and then exactly once; in every other case the     *)
(* page's final text is the direct text.                                   *)
(***************************************************************************)
RecognitionWarranted ==
    /\ NonWhitespaceCount(direct_txt) < 20
    /\ ocr_if_scanned
    /\ TESS_AVAILABLE

C8_RecognitionGate ==
    /\ ocr_calls <= 1
    /\ ocr_calls = 1 => RecognitionWarranted
    /\ (pc \in {"choose", "append"} /\ RecognitionWarranted) => ocr_calls = 1
    /\ (pc = "append" /\ ~RecognitionWarranted) => txt = direct_txt

C8_Witness ==
    /\ pc = "append"
    /\ Len(text_per_page) >= 1
    /\ NonWhitespaceCount(direct_txt) = 19
    /\ Len(direct_txt) >= 20
    /\ ocr_calls = 1
    /\ txt = ocr_txt
    /\ txt # direct_txt

=============================================================================
